---- MODULE Spec2Model ----
(***************************************************************************)
(* A model of src/Forvo.py: the query normaliser prepare_query_string, the *)
(* Forvo object (load_search_query, get_pronunciations,                    *)
(* download_pronunciations, cleanup) and the Pronunciation record          *)
(* (download_pronunciation, remove_pronunciation).                         *)
(*                                                                         *)
(* Strings the code inspects character by character are sequences of       *)
(* one-character strings.  The remote site, the host media store and the   *)
(* file system are the environment: what they answer is chosen with \E.    *)
(***************************************************************************)
EXTENDS Integers, Sequences, FiniteSets, TLC

VARIABLES
    rawInput,           \* prepare_query_string: the argument `input`
    replaceCharacters,  \* config.get_config_object("replaceCharacters").value
    word,               \* Forvo.word / the query prepare_query_string returned
    language,           \* Forvo.language
    html,               \* Forvo.html: None while the attribute is unset, else Some(page)
    pronunciations,     \* Forvo.pronunciations: the list of Pronunciation records
    media,              \* host media store: the handles it holds (added, not trashed)
    tempDir,            \* the entries of temp_dir
    calls,              \* the calls the last operation made to the host and to os.remove
    result              \* the last operation: its name, how it ended, the record it was about

vars == <<rawInput, replaceCharacters, word, language, html, pronunciations,
          media, tempDir, calls, result>>

----------------------------------------------------------------------------
(* Bounds of the model.                                                    *)

\* longest raw search term given to prepare_query_string
MaxLen == 3
\* most list items in one language container of a served page
MaxItems == 2
\* most records Forvo.pronunciations may hold before get_pronunciations is no longer called
MaxRecords == 2

----------------------------------------------------------------------------
(* Characters and strings.                                                 *)

\* str.strip() with no argument strips whitespace
Whitespace == {" "}

\* the characters raw search terms are made of
InputChars == {"a", " ", "-"}

\* index of the first character of s that is not whitespace, Len(s)+1 if none
RECURSIVE FirstNonWs(_, _)
FirstNonWs(s, i) ==
    IF i > Len(s) THEN i
    ELSE IF s[i] \in Whitespace THEN FirstNonWs(s, i + 1) ELSE i

\* index of the last character of s that is not whitespace, 0 if none
RECURSIVE LastNonWs(_, _)
LastNonWs(s, i) ==
    IF i < 1 THEN 0
    ELSE IF s[i] \in Whitespace THEN LastNonWs(s, i - 1) ELSE i

\* str.strip(): leading and trailing whitespace removed
Strip(s) ==
    SubSeq(s, FirstNonWs(s, 1), LastNonWs(s, Len(s)))

\* str.replace(char, ""): every occurrence of the one-character string removed
RECURSIVE Replace(_, _)
Replace(s, char) ==
    IF s = <<>> THEN <<>>
    ELSE IF Head(s) = char THEN Replace(Tail(s), char)
    ELSE <<Head(s)>> \o Replace(Tail(s), char)

\* the for loop of prepare_query_string over the configured characters, in order
RECURSIVE ReplaceAll(_, _)
ReplaceAll(query, chars) ==
    IF chars = <<>> THEN query
    ELSE ReplaceAll(Replace(query, Head(chars)), Tail(chars))

\* prepare_query_string(input, config): strip first, then delete the configured characters
prepare_query_string(input, chars) ==
    ReplaceAll(Strip(input), chars)

\* all sequences over S of length at most n
SeqsUpTo(S, n) == UNION {[1..k -> S] : k \in 0..n}

\* the raw search terms of the model
RawInputs == SeqsUpTo(InputChars, MaxLen)

\* the configured replaceCharacters lists of the model (ordered, as configured)
ReplaceConfigs == {<<>>, <<"-">>, <<" ">>, <<"-", "a">>}

----------------------------------------------------------------------------
(* Optional values: None is <<>>, a present value x is <<x>>.              *)

None == <<>>
Some(x) == <<x>>

----------------------------------------------------------------------------
(* The fetched page, as far as get_pronunciations reads it.                *)
(*                                                                         *)
(* page      : the sequence of elements that carry an id, in page order    *)
(* container : [id, list]; id = [literal, tail] says whether the id holds  *)
(*             the text "language-container-" and what follows it; list is *)
(*             None when .pronunciations/.show-all-pronunciations is       *)
(*             missing, else Some(the <li> items)                          *)
(* item      : [more, votesSpan, onclick, ofLink, byText, from, dataId]    *)
(*             more      - the item has a .more block                      *)
(*             votesSpan - None, or Some(text of the span in .num_votes)   *)
(*             onclick   - None when there is no play_<n> element, else    *)
(*                         Some(the quoted arguments of Play(<n>,'..','..',*)
(*                         <w>,'..'), in order, each a base64 text)        *)
(*             ofLink    - None, or Some(text of the direct .ofLink child) *)
(*             byText    - None, or Some(what follows "Pronunciation by"   *)
(*                         in the third child node)                        *)
(*             from      - None, or Some(text of .from)                    *)
(*             dataId    - None, or Some(data-id of .share)                *)

WordChars == {"e", "n", "g", "l", "i", "s", "h", "j", "a", "u"}

\* \w{2,4}: at least MinCode and at most MaxCode word characters
MinCode == 2
MaxCode == 4

\* the longest run of word characters at the start of s
RECURSIVE WordPrefix(_)
WordPrefix(s) ==
    IF s = <<>> \/ Head(s) \notin WordChars THEN <<>>
    ELSE <<Head(s)>> \o WordPrefix(Tail(s))

\* re.findall(r"language-container-(\w{2,4})", id): None when the id does not
\* match, else Some(the captured code) (greedy, so up to MaxCode characters)
LangCode(id) ==
    LET run == WordPrefix(id.tail) IN
    IF id.literal /\ Len(run) >= MinCode
       THEN Some(SubSeq(run, 1, IF Len(run) > MaxCode THEN MaxCode ELSE Len(run)))
       ELSE None

\* find_all(id=re.compile(r"language-container-\w{2,4}")): the matching elements
AvailableLangsEl(page) ==
    SelectSeq(page, LAMBDA el : LangCode(el.id) # None)

\* available_langs: the code captured from each matching element
AvailableLangs(page) ==
    LET els == AvailableLangsEl(page) IN
    [i \in 1..Len(els) |-> LangCode(els[i].id)[1]]

Range(s) == {s[i] : i \in 1..Len(s)}

----------------------------------------------------------------------------
(* Vote count: int(re.findall(r"(-?\d+).*", text)[0])                      *)

Digits == <<"0", "1", "2", "3", "4", "5", "6", "7", "8", "9">>

IsDigit(c) == c \in Range(Digits)

DigitVal(c) == (CHOOSE d \in 1..Len(Digits) : Digits[d] = c) - 1

\* index of the first digit of s at or after i, 0 if none
RECURSIVE FirstDigit(_, _)
FirstDigit(s, i) ==
    IF i > Len(s) THEN 0
    ELSE IF IsDigit(s[i]) THEN i ELSE FirstDigit(s, i + 1)

\* value of the run of digits of s that starts at i, read after acc
RECURSIVE DigitRun(_, _, _)
DigitRun(s, i, acc) ==
    IF i > Len(s) \/ ~IsDigit(s[i]) THEN acc
    ELSE DigitRun(s, i + 1, acc * 10 + DigitVal(s[i]))

\* the leftmost match of -?\d+ in text: None when there is none, else Some(its value)
ParseVotes(text) ==
    LET d == FirstDigit(text, 1) IN
    IF d = 0 THEN None
    ELSE IF d > 1 /\ text[d - 1] = "-" THEN Some(0 - DigitRun(text, d, 0))
    ELSE Some(DigitRun(text, d, 0))

----------------------------------------------------------------------------
(* Download token: base64.b64decode, then str(bytes, "utf-8").             *)
(* A base64 text is a sequence of sextet values 0..63 and of Pad ("=").    *)
(* Decoded bytes are 0..255; the bytes of the model's tokens are either    *)
(* ASCII or 255, which no UTF-8 text contains.                             *)

Pad == 64

\* the bytes of one group of four base64 symbols
Quad(a, b, c, d) ==
    LET b1 == a * 4 + (b \div 16)
        b2 == (b % 16) * 16 + (IF c = Pad THEN 0 ELSE c \div 4)
        b3 == (IF c = Pad THEN 0 ELSE (c % 4) * 64) + (IF d = Pad THEN 0 ELSE d)
    IN  IF c = Pad THEN <<b1>>
        ELSE IF d = Pad THEN <<b1, b2>>
        ELSE <<b1, b2, b3>>

RECURSIVE DecodeQuads(_)
DecodeQuads(t) ==
    IF t = <<>> THEN <<>>
    ELSE Quad(t[1], t[2], t[3], t[4]) \o DecodeQuads(SubSeq(t, 5, Len(t)))

\* str(base64.b64decode(token), "utf-8"): the decoded text, or the exception
B64Decode(token) ==
    IF Len(token) % 4 # 0
       THEN [ok |-> FALSE, text |-> <<>>, exc |-> "binascii.Error"]
    ELSE LET bytes == DecodeQuads(token) IN
         IF \E i \in 1..Len(bytes) : bytes[i] > 127
            THEN [ok |-> FALSE, text |-> <<>>, exc |-> "UnicodeDecodeError"]
            ELSE [ok |-> TRUE, text |-> bytes, exc |-> "none"]

\* "https://audio00.forvo.com/audios/mp3/" and "https://audio00.forvo.com/ogg/"
Mp3Prefix == [scheme |-> "https", host |-> "audio00.forvo.com", dir |-> "/audios/mp3/"]
OggPrefix == [scheme |-> "https", host |-> "audio00.forvo.com", dir |-> "/ogg/"]

\* prefix + text
Url(prefix, text) ==
    [scheme |-> prefix.scheme, host |-> prefix.host, dir |-> prefix.dir, file |-> text]

\* r"Play\(\d+,'.+','.+',\w+,'([^']+)": the first three quoted arguments are
\* there and not empty; the token is the third of them (the call's 5th argument)
Match5(args) ==
    Len(args) >= 3 /\ args[1] # <<>> /\ args[2] # <<>> /\ args[3] # <<>>

\* r"Play\(\d+,'[^']+','([^']+)": the first two quoted arguments are there and
\* not empty; the token is the second of them (the call's 3rd argument)
Match3(args) ==
    Len(args) >= 2 /\ args[1] # <<>> /\ args[2] # <<>>

----------------------------------------------------------------------------
(* The body of the for loop of get_pronunciations, for one item.           *)

\* a Pronunciation as the loop constructs it: audio defaults to None
Pronunciation(lang, user, origin, id, votes, url, ogg, w) ==
    [language |-> lang, user |-> user, origin |-> origin, id |-> id,
     votes |-> votes, download_url |-> url, is_ogg |-> ogg, word |-> w,
     audio |-> None]

Raised(exc) == [kind |-> "raise", exc |-> exc, rec |-> None]
Skipped == [kind |-> "skip", exc |-> "none", rec |-> None]
Built(r) == [kind |-> "record", exc |-> "none", rec |-> Some(r)]

\* a wrong token choice: the ogg form is tried first
ItemUrlOggFirst(args) ==
    IF Match3(args)
       THEN [ok |-> B64Decode(args[2]).ok, exc |-> B64Decode(args[2]).exc, is_ogg |-> TRUE,
             url |-> Url(OggPrefix, B64Decode(args[2]).text)]
    ELSE IF Match5(args)
       THEN [ok |-> B64Decode(args[3]).ok, exc |-> B64Decode(args[3]).exc, is_ogg |-> FALSE,
             url |-> Url(Mp3Prefix, B64Decode(args[3]).text)]
    ELSE [ok |-> FALSE, exc |-> "IndexError", is_ogg |-> FALSE, url |-> Url(Mp3Prefix, <<>>)]

\* lines 128-138: the 5-argument form gives the mp3 url; without it the
\* 3-argument form gives the ogg url; with neither, findall(...)[0] raises
ItemUrl(args) ==
    IF Match5(args)
       THEN LET d == B64Decode(args[3]) IN
            [ok |-> d.ok, exc |-> d.exc, is_ogg |-> FALSE, url |-> Url(Mp3Prefix, d.text)]
    ELSE IF Match3(args)
       THEN LET d == B64Decode(args[2]) IN
            [ok |-> d.ok, exc |-> d.exc, is_ogg |-> TRUE, url |-> Url(OggPrefix, d.text)]
    ELSE [ok |-> FALSE, exc |-> "IndexError", is_ogg |-> FALSE, url |-> Url(Mp3Prefix, <<>>)]

\* lines 115-156 for one item: skipped, a record, or the first exception
ExtractItem(item, lang, w) ==
    IF ~item.more THEN Skipped
    ELSE IF item.votesSpan # None /\ ParseVotes(item.votesSpan[1]) = None
        THEN Raised("IndexError")
    ELSE IF item.onclick = None THEN Raised("IndexError")
    ELSE IF ~ItemUrl(item.onclick[1]).ok THEN Raised(ItemUrl(item.onclick[1]).exc)
    ELSE IF item.ofLink = None /\ item.byText = None THEN Raised("IndexError")
    ELSE IF item.from = None THEN Raised("IndexError")
    ELSE IF item.dataId = None THEN Raised("IndexError")
    ELSE LET votes == IF item.votesSpan = None THEN 0
                      ELSE ParseVotes(item.votesSpan[1])[1]
             dl == ItemUrl(item.onclick[1])
             user == IF item.ofLink = None THEN Strip(item.byText[1])
                     ELSE item.ofLink[1]
         IN  Built(Pronunciation(lang, user, item.from[1], item.dataId[1], votes,
                                 dl.url, dl.is_ogg, w))

\* a wrong loop: an item without .more ends the loop
RECURSIVE ExtractLoopStopAtSkip(_, _, _)
ExtractLoopStopAtSkip(items, lang, w) ==
    IF items = <<>> THEN [appended |-> <<>>, outcome |-> "ok"]
    ELSE LET x == ExtractItem(Head(items), lang, w) IN
         IF x.kind = "raise" THEN [appended |-> <<>>, outcome |-> x.exc]
         ELSE IF x.kind = "skip" THEN [appended |-> <<>>, outcome |-> "ok"]
         ELSE LET rest == ExtractLoopStopAtSkip(Tail(items), lang, w) IN
              [appended |-> x.rec \o rest.appended, outcome |-> rest.outcome]

\* the for loop of lines 114-156: the records appended, in order, and how the
\* loop ended; what was appended before an exception stays appended
RECURSIVE ExtractLoop(_, _, _)
ExtractLoop(items, lang, w) ==
    IF items = <<>> THEN [appended |-> <<>>, outcome |-> "ok"]
    ELSE LET x == ExtractItem(Head(items), lang, w) IN
         IF x.kind = "raise" THEN [appended |-> <<>>, outcome |-> x.exc]
         ELSE LET rest == ExtractLoop(Tail(items), lang, w) IN
              [appended |-> x.rec \o rest.appended, outcome |-> rest.outcome]

\* lines 108-109: the first matching element whose code is the language
LangContainer(page, lang) ==
    LET els == AvailableLangsEl(page)
        i == CHOOSE k \in 1..Len(els) :
                 /\ LangCode(els[k].id) = Some(lang)
                 /\ \A j \in 1..(k - 1) : LangCode(els[j].id) # Some(lang)
    IN  els[i]

\* a wrong get_pronunciations: no language check, the first element is read
GetPronunciationsNoLangCheck(h, lang, w) ==
    IF h = None THEN [appended |-> <<>>, outcome |-> "AttributeError"]
    ELSE IF h[1] = <<>> THEN [appended |-> <<>>, outcome |-> "IndexError"]
    ELSE IF h[1][1].list = None THEN [appended |-> <<>>, outcome |-> "IndexError"]
    ELSE ExtractLoop(h[1][1].list[1], lang, w)

\* get_pronunciations, lines 96-158: the records it appends and how it ends
GetPronunciationsResult(h, lang, w) ==
    IF h = None THEN [appended |-> <<>>, outcome |-> "AttributeError"]
    ELSE IF lang \notin Range(AvailableLangs(h[1]))
        THEN [appended |-> <<>>, outcome |-> "NoResultsException"]
    ELSE IF LangContainer(h[1], lang).list = None
        THEN [appended |-> <<>>, outcome |-> "IndexError"]
    ELSE ExtractLoop(LangContainer(h[1], lang).list[1], lang, w)

----------------------------------------------------------------------------
(* The pages, tokens and items the remote site serves in the model.        *)

\* "YS9i", which decodes to "a/b"
TokMp3 == <<24, 18, 61, 34>>
\* "Yg==", which decodes to "b"
TokOgg == <<24, 32, Pad, Pad>>
\* "YS9": not a multiple of four symbols
TokShort == <<24, 18, 61>>
\* "////", which decodes to three bytes 255
TokBinary == <<63, 63, 63, 63>>

\* a complete entry with a profile link, votes "-3 v" and the 5-argument Play
ItemMp3 ==
    [more |-> TRUE, votesSpan |-> Some(<<"-", "3", " ", "v">>),
     onclick |-> Some(<<TokMp3, TokOgg, TokMp3>>),
     ofLink |-> Some(<<"a", "n">>), byText |-> None,
     from |-> Some("Spain"), dataId |-> Some(7)]

\* a complete entry without profile link or vote span, with the 3-argument Play
ItemOgg ==
    [more |-> TRUE, votesSpan |-> None,
     onclick |-> Some(<<TokMp3, TokOgg>>),
     ofLink |-> None, byText |-> Some(<<" ", "l", "u", " ">>),
     from |-> Some("Peru"), dataId |-> Some(8)]

\* a complete entry whose Play call has an empty 5th argument
ItemEmpty5th ==
    [more |-> TRUE, votesSpan |-> Some(<<"1", "2">>),
     onclick |-> Some(<<TokOgg, TokMp3, <<>>>>),
     ofLink |-> Some(<<"a", "n">>), byText |-> None,
     from |-> Some("Spain"), dataId |-> Some(9)]

\* the "add your own" placeholder: no .more block
ItemPlaceholder ==
    [more |-> FALSE, votesSpan |-> None, onclick |-> None,
     ofLink |-> None, byText |-> None, from |-> None, dataId |-> None]

\* an entry without a .from element
ItemNoFrom ==
    [more |-> TRUE, votesSpan |-> None,
     onclick |-> Some(<<TokMp3, TokOgg, TokMp3>>),
     ofLink |-> Some(<<"a", "n">>), byText |-> None,
     from |-> None, dataId |-> Some(7)]

\* entries whose token does not decode
ItemShortToken == [ItemMp3 EXCEPT !.onclick = Some(<<TokMp3, TokOgg, TokShort>>)]
ItemBinaryToken == [ItemOgg EXCEPT !.onclick = Some(<<TokMp3, TokBinary>>)]

\* the items of which the served lists are made, and the broken ones
Items == {ItemMp3, ItemOgg, ItemEmpty5th, ItemPlaceholder}
BrokenItems == {ItemNoFrom, ItemShortToken, ItemBinaryToken}

Container(id, list) == [id |-> id, list |-> list]

\* ids: "language-container-en", "...-en-us", "...-english", "...-e", "...-ja",
\* and an id without the text "language-container-"
IdEn == [literal |-> TRUE, tail |-> <<"e", "n">>]
IdEnUs == [literal |-> TRUE, tail |-> <<"e", "n", "-", "u", "s">>]
IdEnglish == [literal |-> TRUE, tail |-> <<"e", "n", "g", "l", "i", "s", "h">>]
IdE == [literal |-> TRUE, tail |-> <<"e">>]
IdJa == [literal |-> TRUE, tail |-> <<"j", "a">>]
IdOther == [literal |-> FALSE, tail |-> <<"e", "n">>]

Ids == {IdEn, IdEnUs, IdEnglish, IdE, IdJa, IdOther}

\* the language codes a Forvo object is constructed with
En == <<"e", "n">>
Languages == {En, <<"e", "n", "g", "l">>}

\* the pages served to the extraction runs: one "en" container with every list
\* of items, with a broken item after or before a complete one, one container
\* under every id, two containers, a container without list, and a page
\* without containers
Pages ==
    {<<Container(IdEn, Some(l))>> : l \in SeqsUpTo(Items, MaxItems)}
    \cup {<<Container(IdEn, Some(<<ItemMp3, b>>))>> : b \in BrokenItems}
    \cup {<<Container(IdEn, Some(<<b, ItemOgg>>))>> : b \in BrokenItems}
    \cup {<<Container(id, Some(<<ItemMp3>>))>> : id \in Ids}
    \cup {<<Container(IdJa, Some(<<ItemOgg>>)), Container(id, Some(<<ItemMp3>>))>> :
             id \in {IdEn, IdE}}
    \cup {<<Container(IdEnUs, Some(<<ItemOgg>>)), Container(IdEn, Some(<<ItemMp3>>))>>}
    \cup {<<Container(IdEn, None)>>, <<>>}

\* the pages served to the runs that also download
LifecyclePages ==
    {<<Container(IdEn, Some(<<ItemMp3, ItemPlaceholder, ItemOgg>>))>>,
     <<Container(IdEn, Some(<<ItemOgg, ItemNoFrom>>))>>,
     <<Container(IdJa, Some(<<ItemMp3>>))>>}

\* what urlopen(search_url + quote_plus(word)).read() ends with: the page, an
\* HTTPError with its status code, or another exception
FetchOk(page) == [kind |-> "page", page |-> page, code |-> 0]
FetchHttpError(code) == [kind |-> "HTTPError", page |-> <<>>, code |-> code]
FetchUrlError == [kind |-> "URLError", page |-> <<>>, code |-> 0]

HttpCodes == {404, 500, 403}

FetchErrors == {FetchHttpError(c) : c \in HttpCodes} \cup {FetchUrlError}

----------------------------------------------------------------------------
(* Calls to the environment and the outcome of an operation.               *)
(*                                                                         *)
(* call    : [fn, arg, ok, val]: the function, its arguments, whether it   *)
(*           returned, and what it returned or raised                      *)
(* outcome : <<"return", value>> or <<"raise", exception [, status code]>> *)

Call(fn, arg, ok, val) == [fn |-> fn, arg |-> arg, ok |-> ok, val |-> val]

Return(value) == <<"return", value>>
Raise(exc) == <<"raise", exc>>

Result(op, outcome, rec) == [op |-> op, outcome |-> outcome, rec |-> rec]

Returned(r) == r.outcome[1] = "return"
Raises(r, exc) == r.outcome[1] = "raise" /\ r.outcome[2] = exc

\* the calls of sequence cs to function fn
CallsTo(cs, fn) == SelectSeq(cs, LAMBDA c : c.fn = fn)

----------------------------------------------------------------------------
(* load_search_query, lines 76-94.                                         *)

\* how load_search_query ends, given what urlopen ended with.  The else of
\* line 93 belongs to `if isinstance(e, HTTPError)`: an HTTPError whose code
\* is not 404 reaches the end of the handler and the function returns None
LoadOutcome(resp) ==
    IF resp.kind = "page" THEN Return("self")
    ELSE IF resp.kind = "HTTPError"
        THEN IF resp.code = 404 THEN Raise("NoResultsException")
             ELSE Return("None")
    ELSE <<"raise", resp.kind>>

\* the urlopen call of line 80 as the operation's log shows it
FetchCall(resp) ==
    IF resp.kind = "page" THEN Call("urlopen", <<"search", word>>, TRUE, <<>>)
    ELSE IF resp.kind = "HTTPError"
        THEN Call("urlopen", <<"search", word>>, FALSE, <<"raise", resp.kind, resp.code>>)
    ELSE Call("urlopen", <<"search", word>>, FALSE, <<"raise", resp.kind>>)

LoadSearchQuery(resp) ==
    /\ html' = IF resp.kind = "page" THEN Some(resp.page) ELSE html
    /\ calls' = <<FetchCall(resp)>>
    /\ result' = Result("load_search_query", LoadOutcome(resp), 0)
    /\ UNCHANGED <<rawInput, replaceCharacters, word, language, pronunciations,
                   media, tempDir>>

----------------------------------------------------------------------------
(* get_pronunciations, lines 96-158.                                       *)

\* a wrong get_pronunciations: the list is built anew on every call
GetPronunciationsRebuildsList ==
    \E g \in {GetPronunciationsResult(html, language, word)} :
    /\ Len(pronunciations) + Len(g.appended) <= MaxRecords
    /\ pronunciations' = g.appended
    /\ calls' = <<>>
    /\ result' = Result("get_pronunciations",
                        IF g.outcome = "ok" THEN Return("self") ELSE Raise(g.outcome), 0)
    /\ UNCHANGED <<rawInput, replaceCharacters, word, language, html, media, tempDir>>

\* the list never grows past MaxRecords: the call is not made when it would
GetPronunciations ==
    \E g \in {GetPronunciationsResult(html, language, word)} :
    /\ Len(pronunciations) + Len(g.appended) <= MaxRecords
    /\ pronunciations' = pronunciations \o g.appended
    /\ calls' = <<>>
    /\ result' = Result("get_pronunciations",
                        IF g.outcome = "ok" THEN Return("self") ELSE Raise(g.outcome), 0)
    /\ UNCHANGED <<rawInput, replaceCharacters, word, language, html, media, tempDir>>

----------------------------------------------------------------------------
(* Pronunciation.download_pronunciation, lines 34-46.                      *)

\* the media names the host's add_file returns in the model
Handles == {"a.mp3", "a-1.mp3"}

\* what the environment does during one download: open(dl_path, "wb") raises,
\* or urlopen/read raises after the file was created, or the bytes arrive and
\* the host's add_file returns handle h
DlOpenFails == [kind |-> "open", handle |-> None]
DlFetchFails == [kind |-> "fetch", handle |-> None]
DlStored(h) == [kind |-> "stored", handle |-> Some(h)]
DlEnvs == {DlOpenFails, DlFetchFails} \cup {DlStored(h) : h \in Handles}

\* os.path.join(temp_dir, "pronunciation_" + language + "_" + word + ext)
DlPath(r) == <<r.language, r.word, IF r.is_ogg THEN ".ogg" ELSE ".mp3">>

\* one run of download_pronunciation on record r: how it ends, the record's
\* audio afterwards, the files it left in temp_dir, the handles the host added
\* and the calls it made
DownloadOne(r, env) ==
    LET path == DlPath(r)
        open == Call("open", <<path>>, env.kind # "open", IF env.kind = "open" THEN Raise("OSError") ELSE <<>>)
        get == Call("urlopen", <<r.download_url>>, env.kind = "stored", IF env.kind = "stored" THEN <<>> ELSE Raise("URLError"))
    IN  IF env.kind = "open"
           THEN [outcome |-> Raise("OSError"), audio |-> r.audio, files |-> {},
                 added |-> {}, calls |-> <<open>>]
        ELSE IF env.kind = "fetch"
           THEN [outcome |-> Raise("URLError"), audio |-> r.audio, files |-> {path},
                 added |-> {}, calls |-> <<open, get>>]
        ELSE [outcome |-> Return("None"), audio |-> env.handle, files |-> {path},
              added |-> {env.handle[1]},
              calls |-> <<open, get, Call("add_file", <<path>>, TRUE, env.handle)>>]

DownloadPronunciation(i, env) ==
    \E d \in {DownloadOne(pronunciations[i], env)} :
    /\ pronunciations' = [pronunciations EXCEPT ![i].audio = d.audio]
    /\ tempDir' = tempDir \cup d.files
    /\ media' = media \cup d.added
    /\ calls' = d.calls
    /\ result' = Result("download_pronunciation", d.outcome, i)
    /\ UNCHANGED <<rawInput, replaceCharacters, word, language, html>>

----------------------------------------------------------------------------
(* Pronunciation.remove_pronunciation, lines 48-51.                        *)

\* a wrong removal: the handle is trashed but the field keeps it
RemoveOneKeepsAudio(r, hostRaises) ==
    IF r.audio = None /\ hostRaises
       THEN [outcome |-> Raise("TypeError"), audio |-> r.audio, trashed |-> {},
             calls |-> <<Call("trash_files", <<r.audio>>, FALSE, Raise("TypeError"))>>]
       ELSE [outcome |-> Return("None"), audio |-> r.audio, trashed |-> Range(r.audio),
             calls |-> <<Call("trash_files", <<r.audio>>, TRUE, <<>>)>>]

\* one run of remove_pronunciation on record r.  trash_files gets the list
\* [self.audio] whatever audio is; given [None] the host either raises or
\* returns (hostRaises); given a handle it drops that file
RemoveOne(r, hostRaises) ==
    IF r.audio = None /\ hostRaises
       THEN [outcome |-> Raise("TypeError"), audio |-> r.audio, trashed |-> {},
             calls |-> <<Call("trash_files", <<r.audio>>, FALSE, Raise("TypeError"))>>]
       ELSE [outcome |-> Return("None"), audio |-> None, trashed |-> Range(r.audio),
             calls |-> <<Call("trash_files", <<r.audio>>, TRUE, <<>>)>>]

RemovePronunciation(i, hostRaises) ==
    \E d \in {RemoveOne(pronunciations[i], hostRaises)} :
    /\ pronunciations' = [pronunciations EXCEPT ![i].audio = d.audio]
    /\ media' = media \ d.trashed
    /\ calls' = d.calls
    /\ result' = Result("remove_pronunciation", d.outcome, i)
    /\ UNCHANGED <<rawInput, replaceCharacters, word, language, html, tempDir>>

----------------------------------------------------------------------------
(* Forvo.download_pronunciations, lines 160-165.                           *)

\* the loop before its first iteration
LoopStart(recs) ==
    [outcome |-> Return("self"), recs |-> recs, files |-> {}, added |-> {},
     calls |-> <<>>, at |-> 0]

\* the loop after download d of record i returned
LoopStep(acc, d, i) ==
    [outcome |-> acc.outcome, recs |-> [acc.recs EXCEPT ![i].audio = d.audio],
     files |-> acc.files \cup d.files, added |-> acc.added \cup d.added,
     calls |-> acc.calls \o d.calls, at |-> acc.at]

\* the loop after download d of record i raised
LoopRaise(acc, d, i) ==
    [outcome |-> d.outcome, recs |-> acc.recs,
     files |-> acc.files \cup d.files, added |-> acc.added \cup d.added,
     calls |-> acc.calls \o d.calls, at |-> i]

\* a wrong loop: a download that raises is passed over and the loop goes on
RECURSIVE DownloadLoopSkipsFailures(_, _, _)
DownloadLoopSkipsFailures(acc, envs, i) ==
    IF i > Len(acc.recs) THEN acc
    ELSE DownloadLoopSkipsFailures(
             LoopStep(acc, DownloadOne(acc.recs[i], envs[i]), i), envs, i + 1)

\* the for loop over self.pronunciations from position i on, envs[k] being
\* what the environment does during the download of record k: the first
\* download that raises ends the loop, at position `at`
RECURSIVE DownloadLoop(_, _, _)
DownloadLoop(acc, envs, i) ==
    IF i > Len(acc.recs) THEN acc
    ELSE IF DownloadOne(acc.recs[i], envs[i]).outcome[1] = "raise"
        THEN LoopRaise(acc, DownloadOne(acc.recs[i], envs[i]), i)
    ELSE DownloadLoop(LoopStep(acc, DownloadOne(acc.recs[i], envs[i]), i), envs, i + 1)

DownloadPronunciations(envs) ==
    \E d \in {DownloadLoop(LoopStart(pronunciations), envs, 1)} :
    /\ pronunciations' = d.recs
    /\ tempDir' = tempDir \cup d.files
    /\ media' = media \cup d.added
    /\ calls' = d.calls
    /\ result' = Result("download_pronunciations", d.outcome, d.at)
    /\ UNCHANGED <<rawInput, replaceCharacters, word, language, html>>

----------------------------------------------------------------------------
(* Forvo.cleanup, lines 167-172.                                           *)

\* the orders in which os.listdir may list the entries of dir
Listings(dir) ==
    {l \in [1..Cardinality(dir) -> dir] : Range(l) = dir}

\* a wrong cleanup: the last listed entry is left behind
CleanupRunLeavesLast(listing, failAt) ==
    LET n == IF failAt = 0 THEN Len(listing) - 1 ELSE failAt - 1 IN
    [outcome |-> IF failAt = 0 THEN Return("None") ELSE Raise("OSError"),
     removed |-> {listing[k] : k \in 1..n},
     calls |-> [k \in 1..n |-> Call("os.remove", <<listing[k]>>, TRUE, <<>>)]]

\* the for loop over os.listdir(temp_dir): the entries are removed in listing
\* order; failAt = 0 when every os.remove returns, else the position of the
\* os.remove that raises, which ends the loop
CleanupRun(listing, failAt) ==
    LET n == IF failAt = 0 THEN Len(listing) ELSE failAt - 1 IN
    [outcome |-> IF failAt = 0 THEN Return("None") ELSE Raise("OSError"),
     removed |-> {listing[k] : k \in 1..n},
     calls |-> [k \in 1..n |-> Call("os.remove", <<listing[k]>>, TRUE, <<>>)]
               \o (IF failAt = 0 THEN <<>>
                   ELSE <<Call("os.remove", <<listing[failAt]>>, FALSE, Raise("OSError"))>>)]

Cleanup(listing, failAt) ==
    \E c \in {CleanupRun(listing, failAt)} :
    /\ tempDir' = tempDir \ c.removed
    /\ calls' = c.calls
    /\ result' = Result("cleanup", c.outcome, 0)
    /\ UNCHANGED <<rawInput, replaceCharacters, word, language, html, pronunciations, media>>

----------------------------------------------------------------------------
(* Forvo.__init__ and the specifications.                                  *)

\* the call of prepare_query_string on its own
PrepareQueryString(input, chars) ==
    /\ rawInput' = input
    /\ replaceCharacters' = chars
    /\ word' = prepare_query_string(input, chars)
    /\ calls' = <<>>
    /\ result' = Result("prepare_query_string", Return("query"), 0)
    /\ UNCHANGED <<language, html, pronunciations, media, tempDir>>

\* Forvo(word, language, mw, config) with word " a-" and "-" configured
Constructed(lang) ==
    /\ rawInput = <<" ", "a", "-">>
    /\ replaceCharacters = <<"-">>
    /\ word = prepare_query_string(rawInput, replaceCharacters)
    /\ language = lang
    /\ html = None
    /\ pronunciations = <<>>
    /\ media = {}
    /\ tempDir = {}
    /\ calls = <<>>
    /\ result = Result("__init__", Return("None"), 0)

Init == Constructed(En)

InitExtract == \E lang \in Languages : Constructed(lang)

LoadAny(pages) ==
    \E resp \in {FetchOk(p) : p \in pages} \cup FetchErrors : LoadSearchQuery(resp)

DownloadAny ==
    \E i \in 1..Len(pronunciations) : \E env \in DlEnvs : DownloadPronunciation(i, env)

\* the host can only raise on [None]
RemoveAny ==
    \E i \in 1..Len(pronunciations) :
        \E hostRaises \in (IF pronunciations[i].audio = None THEN BOOLEAN ELSE {FALSE}) :
            RemovePronunciation(i, hostRaises)

\* what the environment does during the downloads of a list of n records; a
\* download after the first one that raises never starts, so what the
\* environment would do then is fixed
EnvRuns(n) ==
    {envs \in [1..n -> DlEnvs] :
        \A k \in 1..n : (\E j \in 1..(k - 1) : envs[j].kind # "stored") => envs[k] = DlOpenFails}

DownloadAll ==
    \E envs \in EnvRuns(Len(pronunciations)) : DownloadPronunciations(envs)

CleanupAny ==
    \E listing \in Listings(tempDir) : \E failAt \in 0..Len(listing) :
        Cleanup(listing, failAt)

\* a Forvo object over its life: fetch, extract, download, remove, clean up
Next ==
    \/ LoadAny(LifecyclePages)
    \/ GetPronunciations
    \/ DownloadAny
    \/ RemoveAny
    \/ DownloadAll
    \/ CleanupAny

Spec == Init /\ [][Next]_vars

\* fetch and extract only, over every page of the model
NextExtract ==
    \/ LoadAny(Pages)
    \/ GetPronunciations

SpecExtract == InitExtract /\ [][NextExtract]_vars

\* the query normaliser on every raw term and configuration of the model
NextQuery ==
    \E input \in RawInputs : \E chars \in ReplaceConfigs : PrepareQueryString(input, chars)

SpecQuery == Init /\ [][NextQuery]_vars

----------------------------------------------------------------------------
(* Properties.                                                             *)

Audio(i) == pronunciations[i].audio

\* C1: load_search_query ends with NoResultsException when the fetch fails
\* with HTTP status 404, and with the fetch's own exception when it fails in
\* any other way; it never returns after a failed fetch.
C1_FailedFetchRaises ==
    (result.op = "load_search_query" /\ ~calls[1].ok) =>
        IF calls[1].val = <<"raise", "HTTPError", 404>>
           THEN Raises(result, "NoResultsException")
           ELSE result.outcome = calls[1].val

\* C2: the query prepare_query_string returns neither starts nor ends with
\* whitespace and holds none of the configured characters.
C2_QueryTrimmedAndStripped ==
    result.op = "prepare_query_string" =>
        /\ word = <<>> \/ (word[1] \notin Whitespace /\ word[Len(word)] \notin Whitespace)
        /\ \A c \in Range(replaceCharacters) : c \notin Range(word)

\* C3: when remove_pronunciation follows a download_pronunciation that
\* returned, on the same record, the record's audio is None again, the
\* download made exactly one add_file call and no trash_files call, the
\* removal made exactly one trash_files call and no add_file call, and the
\* trash_files call was given the list of exactly the handle add_file returned.
C3_RoundTrip ==
    [][(/\ result.op = "download_pronunciation" /\ Returned(result)
        /\ result'.op = "remove_pronunciation" /\ result'.rec = result.rec)
       => (/\ Returned(result')
           /\ pronunciations'[result.rec].audio = None
           /\ Len(CallsTo(calls, "add_file")) = 1
           /\ CallsTo(calls, "trash_files") = <<>>
           /\ Len(CallsTo(calls', "trash_files")) = 1
           /\ CallsTo(calls', "add_file") = <<>>
           /\ CallsTo(calls', "trash_files")[1].arg = <<CallsTo(calls, "add_file")[1].val>>
           /\ CallsTo(calls, "add_file")[1].val # None)]_vars

\* a removal has just trashed the handle a download had stored on the record
C3_Witness ==
    /\ result.op = "remove_pronunciation" /\ Returned(result)
    /\ calls[1].fn = "trash_files" /\ calls[1].arg[1] # None
    /\ Audio(result.rec) = None

\* C4: a record's audio is present exactly when the host holds a file added
\* for it and not trashed, every handle the host holds is some record's
\* audio, and trash_files is never given an absent handle.
C4_AudioTracksHostFile ==
    /\ \A i \in 1..Len(pronunciations) : Audio(i) # None => Audio(i)[1] \in media
    /\ \A h \in media : \E i \in 1..Len(pronunciations) : Audio(i) = Some(h)
    /\ \A k \in 1..Len(calls) : calls[k].fn = "trash_files" => calls[k].arg[1] # None

\* C5: download_pronunciations downloads the records in list order and stops
\* at the first download that raises: that exception is how the call ends,
\* add_file was called once for each record before the failing one, in order,
\* each of those records has the handle returned for it, and the failing
\* record and those after it are as they were.  Without a failure every
\* record is downloaded.
C5_BatchStopsAtFirstFailure ==
    [][result'.op = "download_pronunciations" =>
        LET n == Len(pronunciations)
            k == IF Returned(result') THEN n + 1 ELSE result'.rec
            adds == CallsTo(calls', "add_file")
        IN  /\ Len(pronunciations') = n
            /\ k \in 1..(n + 1)
            /\ Returned(result') \/ (/\ ~calls'[Len(calls')].ok
                                     /\ result'.outcome = calls'[Len(calls')].val)
            /\ Len(adds) = k - 1
            /\ \A i \in 1..(k - 1) :
                   /\ adds[i].arg = <<DlPath(pronunciations[i])>>
                   /\ pronunciations'[i].audio = adds[i].val
                   /\ pronunciations'[i].audio # None
            /\ \A i \in k..n : pronunciations'[i] = pronunciations[i]]_vars

\* the download of the second record raised after the first one was stored
C5_Witness ==
    /\ result.op = "download_pronunciations" /\ ~Returned(result)
    /\ result.rec = 2
    /\ Audio(1) # None /\ Audio(2) = None
    /\ Len(CallsTo(calls, "add_file")) = 1

\* C6: get_pronunciations on a fetched page none of whose language-container
\* ids yields the requested code ends with NoResultsException and leaves
\* the list as it was.
C6_MissingLanguageNoResults ==
    [][(/\ result'.op = "get_pronunciations"
        /\ html # None
        /\ \A k \in 1..Len(html[1]) : LangCode(html[1][k].id) # Some(language))
       => (/\ Raises(result', "NoResultsException")
           /\ pronunciations' = pronunciations)]_vars

\* the page has a language container, for another code
C6_Witness ==
    /\ result.op = "get_pronunciations" /\ Raises(result, "NoResultsException")
    /\ html # None /\ html[1] # <<>>
    /\ \E k \in 1..Len(html[1]) : LangCode(html[1][k].id) \notin {None, Some(language)}

\* every part of the item that the loop reads is there and can be read
WellFormed(item) ==
    /\ item.votesSpan = None \/ \E k \in 1..Len(item.votesSpan[1]) : IsDigit(item.votesSpan[1][k])
    /\ item.onclick # None
    /\ \/ Match5(item.onclick[1]) /\ B64Decode(item.onclick[1][3]).ok
       \/ ~Match5(item.onclick[1]) /\ Match3(item.onclick[1]) /\ B64Decode(item.onclick[1][2]).ok
    /\ item.ofLink # None \/ item.byText # None
    /\ item.from # None
    /\ item.dataId # None

\* the items of the list that have a .more block, in page order
WithMore(list) == SelectSeq(list, LAMBDA item : item.more)

\* the records a step appended to the list
Appended == SubSeq(pronunciations', Len(pronunciations) + 1, Len(pronunciations'))

\* C7: get_pronunciations on a page whose container for the language has its
\* list and only well-formed entries returns, and appends to the list exactly
\* one record for each item that has a .more block, in page order, and none
\* for an item without one; on a list that was empty these are the records
\* the list holds.
C7_OneRecordPerEntry ==
    [][(/\ result'.op = "get_pronunciations"
        /\ html # None
        /\ language \in Range(AvailableLangs(html[1]))
        /\ LangContainer(html[1], language).list # None
        /\ \A item \in Range(LangContainer(html[1], language).list[1]) :
               item.more => WellFormed(item))
       => LET entries == WithMore(LangContainer(html[1], language).list[1]) IN
          /\ Returned(result')
          /\ Len(pronunciations') = Len(pronunciations) + Len(entries)
          /\ SubSeq(pronunciations', 1, Len(pronunciations)) = pronunciations
          /\ \A j \in 1..Len(entries) :
                 /\ Appended[j].id = entries[j].dataId[1]
                 /\ Appended[j].origin = entries[j].from[1]
                 /\ Appended[j].language = language
                 /\ Appended[j].word = word
                 /\ Appended[j].audio = None]_vars

\* the list was empty, the page has a placeholder before its one entry, and
\* the list now holds exactly that entry's record
C7_Witness ==
    /\ result.op = "get_pronunciations" /\ Returned(result)
    /\ html = Some(<<Container(IdEn, Some(<<ItemPlaceholder, ItemMp3>>))>>)
    /\ Len(pronunciations) = 1
    /\ pronunciations[1].id = ItemMp3.dataId[1]

FullyQualified(url) == url.scheme = "https" /\ url.host # "" /\ url.dir # ""

\* C8: for every entry get_pronunciations extracts, is_ogg is False and
\* download_url is the mp3 prefix followed by the decoded 5th argument exactly
\* when the onclick has the 5-argument form; when it has only the 3-argument
\* form, is_ogg is True and download_url is the ogg prefix followed by the
\* decoded 3rd argument; download_url is fully qualified either way.  The
\* token "YS9i" decodes to "a/b" and "Yg==" to "b".
C8_TokenFallback ==
    [][(result'.op = "get_pronunciations" /\ Len(pronunciations') > Len(pronunciations))
       => LET entries == WithMore(LangContainer(html[1], language).list[1]) IN
          \A j \in 1..Len(Appended) :
              LET args == entries[j].onclick[1]
                  r == Appended[j]
              IN  /\ Match5(args) <=>
                         (/\ r.is_ogg = FALSE
                          /\ r.download_url = Url(Mp3Prefix, B64Decode(args[3]).text))
                  /\ (~Match5(args) /\ Match3(args)) =>
                         (/\ r.is_ogg = TRUE
                          /\ r.download_url = Url(OggPrefix, B64Decode(args[2]).text))
                  /\ (Match5(args) /\ args[3] = TokMp3) => r.download_url.file = <<97, 47, 98>>
                  /\ (~Match5(args) /\ args[2] = TokOgg) => r.download_url.file = <<98>>
                  /\ FullyQualified(r.download_url)]_vars

\* one call extracted an entry with an empty 5th argument as ogg and an entry
\* with the 5-argument form as mp3
C8_Witness ==
    /\ result.op = "get_pronunciations" /\ Returned(result)
    /\ html = Some(<<Container(IdEn, Some(<<ItemEmpty5th, ItemMp3>>))>>)
    /\ Len(pronunciations) = 2
    /\ pronunciations[1].is_ogg /\ pronunciations[1].download_url.dir = "/ogg/"
    /\ ~pronunciations[2].is_ogg /\ pronunciations[2].download_url.dir = "/audios/mp3/"

\* C9: a cleanup that returns leaves temp_dir empty, having removed each of
\* its entries once, and changes neither a record nor what the host holds.
C9_CleanupEmptiesTempDir ==
    [][result'.op = "cleanup" =>
        /\ pronunciations' = pronunciations
        /\ media' = media
        /\ Returned(result') =>
               /\ tempDir' = {}
               /\ Len(calls') = Cardinality(tempDir)
               /\ {calls'[k].arg[1] : k \in 1..Len(calls')} = tempDir]_vars

\* downloads left two files, which a cleanup removed; a record has its audio
C9_Witness ==
    /\ result.op = "cleanup" /\ Returned(result)
    /\ Len(calls) = 2
    /\ tempDir = {}
    /\ media # {}
    /\ \E i \in 1..Len(pronunciations) : Audio(i) # None
    /\ \E i \in 1..Len(pronunciations) : Audio(i) = None

\* record r without its audio field
Frame(r) == [r EXCEPT !.audio = None]

\* C10: no operation removes, reorders or rewrites a record of the list; the
\* list grows only in get_pronunciations, at its end; of a record only audio
\* changes, set only by a download and cleared only by a removal.
C10_RecordLifecycle ==
    [][/\ Len(pronunciations') >= Len(pronunciations)
       /\ Len(pronunciations') > Len(pronunciations) => result'.op = "get_pronunciations"
       /\ \A i \in 1..Len(pronunciations) :
              /\ Frame(pronunciations'[i]) = Frame(pronunciations[i])
              /\ pronunciations'[i].audio # pronunciations[i].audio =>
                     IF pronunciations'[i].audio = None
                        THEN result'.op = "remove_pronunciation"
                        ELSE result'.op \in {"download_pronunciation", "download_pronunciations"}
       /\ result'.op \in {"load_search_query", "get_pronunciations", "cleanup"} =>
              SubSeq(pronunciations', 1, Len(pronunciations)) = pronunciations]_vars

\* get_pronunciations, called again on a list whose record has its audio,
\* appended a record and then raised
C10_Witness ==
    /\ result.op = "get_pronunciations" /\ Raises(result, "IndexError")
    /\ Len(pronunciations) = 2
    /\ Audio(1) # None
    /\ Audio(2) = None

====
